---- MODULE Spec2Model ----
(***************************************************************************)
(* State-machine model of src/crawler.js: the rl.question callback that    *)
(* builds the seed list, crawlPages (the orchestrator loop) and            *)
(* crawlSinglePage (one page worker), with findRelatedLinks as a pure      *)
(* operator.  JavaScript strings are sequences of one-character strings,   *)
(* so that includes / startsWith / toLowerCase / trim are computed and not *)
(* assumed.  A step of the model is one synchronous run of JavaScript      *)
(* between two awaits (the seeding forEach is unrolled one iteration per   *)
(* step; nothing else can run in between).                                 *)
(***************************************************************************)
EXTENDS Integers, Sequences, FiniteSets, TLC

VARIABLES topicName, urls, si, pc, crawledUrls, pendingUrls, workers, browser,
          successCount, errorCount, totalNewLinksFound,
          writes, openPages,
          batches, admitted, harvested, folded

vars == <<topicName, urls, si, pc, crawledUrls, pendingUrls, workers, browser,
          successCount, errorCount, totalNewLinksFound,
          writes, openPages,
          batches, admitted, harvested, folded>>

(***************************************************************************)
(* Bounds of the model.                                                    *)
(***************************************************************************)
\* const concurrentLimit = 50 in the source (crawler.js:242); scaled down so
\* that a pending queue longer than one batch is reached.
concurrentLimit == 2
\* Longest `children` array of the index response that is enumerated.
MaxChildren == 2

(***************************************************************************)
(* Strings.                                                                *)
(***************************************************************************)
UpperChars == <<"A","B","C","D","E","F","G","H","I","J","K","L","M","N","O","P","Q","R","S","T","U","V","W","X","Y","Z">>
LowerChars == <<"a","b","c","d","e","f","g","h","i","j","k","l","m","n","o","p","q","r","s","t","u","v","w","x","y","z">>

\* String.prototype.toLowerCase on one character (ASCII).
LowerChar(c) ==
  IF \E i \in 1..Len(UpperChars) : UpperChars[i] = c
    THEN LowerChars[CHOOSE i \in 1..Len(UpperChars) : UpperChars[i] = c]
    ELSE c

\* String.prototype.toLowerCase
ToLowerCase(s) == [i \in 1..Len(s) |-> LowerChar(s[i])]

\* String.prototype.includes
Includes(s, t) == \E i \in 0..(Len(s) - Len(t)) : SubSeq(s, i + 1, i + Len(t)) = t

\* String.prototype.startsWith
StartsWith(s, t) == Len(s) >= Len(t) /\ SubSeq(s, 1, Len(t)) = t

\* String.prototype.trim (the only white space in the model is " ").
Trim(s) ==
  IF \A i \in 1..Len(s) : s[i] = " " THEN <<>>
  ELSE LET lo == CHOOSE i \in 1..Len(s) : s[i] # " " /\ \A j \in 1..(i - 1) : s[j] = " "
           hi == CHOOSE i \in 1..Len(s) : s[i] # " " /\ \A j \in (i + 1)..Len(s) : s[j] = " "
       IN SubSeq(s, lo, hi)

\* 'https://developer.apple.com' (crawler.js:39 and :113)
Origin == <<"h","t","t","p","s",":","/","/","d","e","v","e","l","o","p","e","r",".","a","p","p","l","e",".","c","o","m">>
\* '/documentation/' (crawler.js:110, :117, :118)
DocMarker == <<"/","d","o","c","u","m","e","n","t","a","t","i","o","n","/">>
\* 'Untitled' (crawler.js:121)
LinkUntitled == <<"U","n","t","i","t","l","e","d">>
\* 'untitled' (crawler.js:42)
SeedUntitled == <<"u","n","t","i","t","l","e","d">>

(***************************************************************************)
(* The inputs: namespace tokens typed at the prompt, the index response,   *)
(* and the site that the browser renders.                                  *)
(***************************************************************************)
\* "Foo" and "foo"
TopicFoo == <<"F","o","o">>
TopicLower == <<"f","o","o">>
TopicNames == {TopicFoo, TopicLower}

\* "/documentation/foo/a", "/documentation/foo/b"
PathA == <<"/","d","o","c","u","m","e","n","t","a","t","i","o","n","/","f","o","o","/","a">>
PathB == <<"/","d","o","c","u","m","e","n","t","a","t","i","o","n","/","f","o","o","/","b">>
\* "/documentation/Foo/bar"
HrefFooBar == <<"/","d","o","c","u","m","e","n","t","a","t","i","o","n","/","F","o","o","/","b","a","r">>
\* "/documentation/foo/d"
HrefD == <<"/","d","o","c","u","m","e","n","t","a","t","i","o","n","/","f","o","o","/","d">>
\* "https://developer.apple.com/documentation/foo/e"
HrefE == <<"h","t","t","p","s",":","/","/","d","e","v","e","l","o","p","e","r",".","a","p","p","l","e",".","c","o","m","/","d","o","c","u","m","e","n","t","a","t","i","o","n","/","f","o","o","/","e">>
\* "/documentation/Other/x"
HrefOther == <<"/","d","o","c","u","m","e","n","t","a","t","i","o","n","/","O","t","h","e","r","/","x">>
\* "https://example.com/other/Foo/x"
HrefExt == <<"h","t","t","p","s",":","/","/","e","x","a","m","p","l","e",".","c","o","m","/","o","t","h","e","r","/","F","o","o","/","x">>

UrlA == Origin \o PathA
UrlB == Origin \o PathB
UrlD == Origin \o HrefD
UrlE == HrefE

Anchor(h, t) == [href |-> h, text |-> t]

\* The a[href] elements of each page, in document order.  The graph has a
\* cycle (a -> b -> a), a self link (d -> d), a link repeated on one page
\* (a -> b twice), links out of scope and a link whose namespace segment is
\* capitalised.
Web ==
  (UrlA :> << Anchor(PathB, <<" ","B"," ">>), Anchor(HrefFooBar, <<"C">>),
              Anchor(HrefExt, <<"X">>), Anchor(HrefD, <<"D">>), Anchor(PathB, <<" ">>),
              Anchor(HrefE, <<"E","0">>) >>)
  @@ (UrlB :> << Anchor(PathA, <<"A">>), Anchor(HrefE, <<"E">>), Anchor(HrefOther, <<"X">>) >>)
  @@ (UrlD :> << Anchor(HrefD, <<"D">>), Anchor(HrefE, <<"E","2">>), Anchor(PathA, <<"A">>) >>)
  @@ (UrlE :> << >>)

\* The elements of interfaceLanguages.swift[0].children that are enumerated:
\* one without path, one without title, one with both; <<>> stands for a
\* missing (or empty, equally falsy) field.  item.type is not enumerated: it
\* is copied into the record and never read.
ChildItems ==
  { [path |-> <<>>, title |-> <<"N">>],
    [path |-> PathA, title |-> <<>>],
    [path |-> PathB, title |-> <<"B">>] }

RECURSIVE SeqsUpTo(_, _)
SeqsUpTo(S, n) ==
  IF n = 0 THEN {<<>>}
  ELSE LET shorter == SeqsUpTo(S, n - 1)
       IN shorter \cup {Append(s, x) : s \in {t \in shorter : Len(t) = n - 1}, x \in S}

ChildrenLists == SeqsUpTo(ChildItems, MaxChildren)

(***************************************************************************)
(* rl.question callback: children.forEach building validUrls.              *)
(***************************************************************************)
RECURSIVE ValidUrlsFrom(_, _)
ValidUrlsFrom(children, i) ==
  IF i > Len(children) THEN <<>>
  ELSE LET item == children[i]
           rest == ValidUrlsFrom(children, i + 1)
       IN IF item.path # <<>>
            THEN << [index |-> i - 1,
                     title |-> IF item.title # <<>> THEN item.title ELSE SeedUntitled,
                     type  |-> "unknown",
                     path  |-> item.path,
                     url   |-> Origin \o item.path] >> \o rest
            ELSE rest

ValidUrls(children) == ValidUrlsFrom(children, 1)

(***************************************************************************)
(* findRelatedLinks                                                        *)
(***************************************************************************)
\* The test of lines 117-118 on a resolved URL.
SameFramework(fullUrl, currentFramework) ==
  \/ Includes(fullUrl, DocMarker \o currentFramework \o <<"/">>)
  \/ Includes(fullUrl, DocMarker \o ToLowerCase(currentFramework) \o <<"/">>)

\* Lines 111-114.
FullUrl(href) == IF StartsWith(href, <<"/">>) THEN Origin \o href ELSE href

RECURSIVE RelatedFrom(_, _, _)
RelatedFrom(anchors, i, currentFramework) ==
  IF i > Len(anchors) THEN <<>>
  ELSE LET href == anchors[i].href
           text == Trim(anchors[i].text)
           rest == RelatedFrom(anchors, i + 1, currentFramework)
       IN IF href # <<>> /\ Includes(href, DocMarker)
               /\ SameFramework(FullUrl(href), currentFramework)
            THEN << [url   |-> FullUrl(href),
                     title |-> IF text # <<>> THEN text ELSE LinkUntitled,
                     type  |-> "related"] >> \o rest
            ELSE rest

findRelatedLinks(anchors, currentFramework) == RelatedFrom(anchors, 1, currentFramework)

\* const currentFramework = topicName.toLowerCase()  (crawlPages)
CurrentFramework(topic) == ToLowerCase(topic)

(***************************************************************************)
(* Map operations on pendingUrls: a JavaScript Map iterates in insertion   *)
(* order, so the map is the sequence of its values, keyed by .url.         *)
(***************************************************************************)
Keys(m) == {m[i].url : i \in 1..Len(m)}

MapHas(m, u) == u \in Keys(m)

\* Map.prototype.set: a present key keeps its position and takes the new value.
MapSet(m, u, rec) ==
  IF MapHas(m, u)
    THEN [i \in 1..Len(m) |-> IF m[i].url = u THEN rec ELSE m[i]]
    ELSE Append(m, rec)

MapGet(m, u) == m[CHOOSE i \in 1..Len(m) : m[i].url = u]

Min(a, b) == IF a < b THEN a ELSE b

(***************************************************************************)
(* crawlSinglePage, lines 155-167: the relatedLinks.forEach that adds the  *)
(* new links to the pending queue.                                         *)
(***************************************************************************)
\* (variant: only the pending queue is consulted)
IsNewLinkPendingOnly(u, crawled, pending) == ~MapHas(pending, u)

\* (variant: the pending map is not consulted)
IsNewLinkCrawledOnly(u, crawled, pending) == u \notin crawled

\* Line 158: the condition under which a link is new.
IsNewLink(u, crawled, pending) == u \notin crawled /\ ~MapHas(pending, u)

\* index: crawledUrls.size + pendingUrls.size
NextIndex(crawled, pending) == Cardinality(crawled) + Len(pending)

RECURSIVE AdmitLinks(_, _, _, _, _)
AdmitLinks(links, i, crawled, pending, count) ==
  IF i > Len(links) THEN [pending |-> pending, count |-> count]
  ELSE LET link == links[i]
       IN IF IsNewLink(link.url, crawled, pending)
            THEN AdmitLinks(links, i + 1, crawled,
                            MapSet(pending, link.url,
                                   [url   |-> link.url,
                                    title |-> link.title,
                                    type  |-> link.type,
                                    index |-> NextIndex(crawled, pending)]),
                            count + 1)
            ELSE AdmitLinks(links, i + 1, crawled, pending, count)

(***************************************************************************)
(* sanitizeFilename and the file name of lines 185-190.                    *)
(***************************************************************************)
\* The characters of the class [<>:"/\\|?*]
IllegalChars == {"<", ">", ":", "\"", "/", "\\", "|", "?", "*"}

Digits == <<"0","1","2","3","4","5","6","7","8","9">>

\* The characters of the class [\w\-_.]
KeptChars ==
  {UpperChars[i] : i \in 1..Len(UpperChars)} \cup {LowerChars[i] : i \in 1..Len(LowerChars)}
    \cup {Digits[i] : i \in 1..Len(Digits)} \cup {"_", "-", "."}

\* .replace(/[<>:"/\\|?*]/g, '-')
ReplaceIllegal(s) == [i \in 1..Len(s) |-> IF s[i] \in IllegalChars THEN "-" ELSE s[i]]

\* .replace(/\s+/g, '_'): each run of white space becomes one underscore.
RECURSIVE CollapseSpaces(_, _)
CollapseSpaces(s, i) ==
  IF i > Len(s) THEN <<>>
  ELSE (IF s[i] # " " THEN <<s[i]>>
        ELSE IF i > 1 /\ s[i - 1] = " " THEN <<>> ELSE <<"_">>) \o CollapseSpaces(s, i + 1)

\* .replace(/[^\w\-_.]/g, '')
StripOthers(s) == SelectSeq(s, LAMBDA c : c \in KeptChars)

\* .substring(0, 100)
MaxFilenameLen == 100

sanitizeFilename(filename) ==
  LET t == StripOthers(CollapseSpaces(ReplaceIllegal(filename), 1))
  IN SubSeq(t, 1, Min(MaxFilenameLen, Len(t)))

\* Number.prototype.toString
RECURSIVE NumberToString(_)
NumberToString(n) == IF n < 10 THEN <<Digits[n + 1]>> ELSE NumberToString(n \div 10) \o <<Digits[(n % 10) + 1]>>

\* .padStart(3, '0')
PadStart3(s) ==
  IF Len(s) >= 3 THEN s ELSE [i \in 1..(3 - Len(s)) |-> "0"] \o s

\* What the rendered document and the parsed article of each page carry as
\* title: the text of <title> (hasTitle FALSE: no such element) and
\* article.title (<<>>: empty).  Pages a and b have the same title.
PageDocs ==
  (UrlA :> [hasTitle |-> TRUE, titleText |-> <<" ","T"," ">>, articleTitle |-> <<>>])
  @@ (UrlB :> [hasTitle |-> TRUE, titleText |-> <<"T">>, articleTitle |-> <<"B">>])
  @@ (UrlD :> [hasTitle |-> TRUE, titleText |-> <<"D",":"," "," ","x","(","1",")">>,
               articleTitle |-> <<>>])
  @@ (UrlE :> [hasTitle |-> FALSE, titleText |-> <<>>, articleTitle |-> <<>>])

PageDoc(u) ==
  IF u \in DOMAIN PageDocs THEN PageDocs[u]
  ELSE [hasTitle |-> FALSE, titleText |-> <<>>, articleTitle |-> <<>>]

\* Lines 186-187: the title of the page.
PageTitle(pageInfo) ==
  LET doc == PageDoc(pageInfo.url)
  IN IF doc.hasTitle THEN Trim(doc.titleText)
     ELSE IF doc.articleTitle # <<>> THEN doc.articleTitle ELSE pageInfo.title

\* Line 190: the file name of the page.
Filename(pageInfo) ==
  PadStart3(NumberToString(pageInfo.index)) \o <<"_">> \o sanitizeFilename(PageTitle(pageInfo))
    \o <<".","m","d">>

(***************************************************************************)
(* Initial state: the prompt has been answered and the index fetched.      *)
(***************************************************************************)
NoResult == [success |-> FALSE, newLinksFound |-> 0, filename |-> <<>>]

Init ==
  /\ topicName \in TopicNames
  /\ \E children \in ChildrenLists : urls = ValidUrls(children)
  /\ si = 1
  /\ pc = "seeding"
  /\ crawledUrls = {}
  /\ pendingUrls = <<>>
  /\ workers = <<>>
  /\ browser = "open"
  /\ successCount = 0
  /\ errorCount = 0
  /\ totalNewLinksFound = 0
  /\ batches = <<>>
  /\ admitted = {}
  /\ harvested = {}
  /\ folded = 0
  /\ writes = <<>>
  /\ openPages = {}

(***************************************************************************)
(* crawlPages                                                              *)
(***************************************************************************)
\* Lines 229-232, one iteration of urls.forEach: pendingUrls.set(url, pageInfo).
AdmitSeed ==
  /\ pc = "seeding"
  /\ si <= Len(urls)
  /\ pendingUrls' = MapSet(pendingUrls, urls[si].url, urls[si])
  /\ admitted' = admitted \cup {urls[si].url}
  /\ si' = si + 1
  /\ UNCHANGED <<topicName, urls, pc, crawledUrls, workers, browser, successCount,
                 errorCount, totalNewLinksFound, batches, harvested, folded,
                 writes, openPages>>

\* The while test of line 246 is reached: after the seeding loop, or after
\* the pause of line 285.
AtLoopHead == pc = "pace" \/ (pc = "seeding" /\ si > Len(urls))

\* (variant: the whole queue is taken)
CurrentBatchUnsliced(pending) == pending

\* Line 248: Array.from(pendingUrls.values()).slice(0, concurrentLimit)
CurrentBatch(pending) == SubSeq(pending, 1, Min(concurrentLimit, Len(pending)))

\* Map.prototype.delete
MapDelete(m, u) == SelectSeq(m, LAMBDA r : r.url # u)

\* (variant: the queue is emptied)
DeleteBatchClear(pending, batch) == <<>>

\* Lines 251-252: pendingUrls.delete(pageInfo.url) for each record of the batch.
RECURSIVE DeleteBatch(_, _)
DeleteBatch(pending, batch) ==
  IF batch = <<>> THEN pending
  ELSE DeleteBatch(MapDelete(pending, Head(batch).url), Tail(batch))

\* (variant: the batch is not recorded as crawled)
AddBatchSkipped(crawled, batch) == crawled

\* Lines 251, 253: crawledUrls.add(pageInfo.url) for each record of the batch.
AddBatch(crawled, batch) == crawled \cup Keys(batch)

\* Lines 246-261: a batch is taken off the queue, marked crawled, and one
\* crawlSinglePage call per record runs up to its first await.
DrainBatch ==
  /\ AtLoopHead
  /\ Len(pendingUrls) > 0
  /\ LET currentBatch == CurrentBatch(pendingUrls)
     IN /\ pendingUrls' = DeleteBatch(pendingUrls, currentBatch)
        /\ crawledUrls' = AddBatch(crawledUrls, currentBatch)
        /\ workers' = [j \in 1..Len(currentBatch) |->
                         [info |-> currentBatch[j], st |-> "newPage", how |-> "unknown",
                          ret |-> NoResult]]
        /\ batches' = Append(batches, currentBatch)
  /\ pc' = "await"
  /\ UNCHANGED <<topicName, urls, si, browser, successCount, errorCount,
                 totalNewLinksFound, admitted, harvested, folded,
                 writes, openPages>>

\* Lines 246, 289-297 when the seed list is empty: the loop is not entered,
\* the report is printed and the browser closed.
FinishEmpty ==
  /\ AtLoopHead
  /\ Len(pendingUrls) = 0
  /\ pc' = "done"
  /\ browser' = "closed"
  /\ UNCHANGED <<topicName, urls, si, crawledUrls, pendingUrls, workers, successCount,
                 errorCount, totalNewLinksFound, batches, admitted, harvested, folded,
                 writes, openPages>>

\* (variant: the first fulfilled promise ends the wait)
AnyFulfilled == \E j \in 1..Len(workers) : workers[j].st = "fulfilled"

\* Promise.all(promises) is fulfilled: every promise of the batch is.
AllFulfilled == \A j \in 1..Len(workers) : workers[j].st = "fulfilled"

\* Promise.all(promises) is rejected: some promise of the batch is.
SomeRejected == \E j \in 1..Len(workers) : workers[j].st = "rejected"

\* (variant: only the first result of the batch is counted)
CountResultsFirst(ws, j, succ) ==
  IF Len(ws) >= 1 /\ ws[1].ret.success = succ THEN 1 ELSE 0

\* Lines 267, 271, 275.
RECURSIVE CountResults(_, _, _)
CountResults(ws, j, succ) ==
  IF j > Len(ws) THEN 0
  ELSE (IF ws[j].ret.success = succ THEN 1 ELSE 0) + CountResults(ws, j + 1, succ)

\* (variant: the links of failed pages are not added)
RECURSIVE SumNewLinksOfSuccesses(_, _)
SumNewLinksOfSuccesses(ws, j) ==
  IF j > Len(ws) THEN 0
  ELSE (IF ws[j].ret.success THEN ws[j].ret.newLinksFound ELSE 0)
         + SumNewLinksOfSuccesses(ws, j + 1)

\* Lines 272, 276-278.
RECURSIVE SumNewLinks(_, _)
SumNewLinks(ws, j) ==
  IF j > Len(ws) THEN 0 ELSE ws[j].ret.newLinksFound + SumNewLinks(ws, j + 1)

\* (variant: a file is written for every result)
RECURSIVE IssuedWritesAll(_, _)
IssuedWritesAll(ws, j) ==
  IF j > Len(ws) THEN <<>>
  ELSE << [filename |-> ws[j].ret.filename, url |-> ws[j].info.url, st |-> "pending"] >>
         \o IssuedWritesAll(ws, j + 1)

\* Lines 267-270: fs.writeFile(filePath, result.content, 'utf8') is called,
\* and not awaited, for every successful result, in batch order.
RECURSIVE IssuedWrites(_, _)
IssuedWrites(ws, j) ==
  IF j > Len(ws) THEN <<>>
  ELSE (IF ws[j].ret.success
          THEN << [filename |-> ws[j].ret.filename, url |-> ws[j].info.url, st |-> "pending"] >>
          ELSE <<>>) \o IssuedWrites(ws, j + 1)

\* Lines 261-287 and, when nothing is pending, 289-297: the results are
\* folded in batch order; then either the pause before the next batch, or
\* the report and browser.close().
FoldBatch ==
  /\ pc = "await"
  /\ AllFulfilled
  /\ successCount' = successCount + CountResults(workers, 1, TRUE)
  /\ errorCount' = errorCount + CountResults(workers, 1, FALSE)
  /\ totalNewLinksFound' = totalNewLinksFound + SumNewLinks(workers, 1)
  /\ folded' = folded + 1
  /\ IF Len(pendingUrls) > 0
       THEN pc' = "pace" /\ browser' = browser
       ELSE pc' = "done" /\ browser' = "closed"
  /\ writes' = writes \o IssuedWrites(workers, 1)
  /\ UNCHANGED <<topicName, urls, si, crawledUrls, pendingUrls, workers,
                 batches, admitted, harvested, openPages>>

\* Lines 261, 295-297: a rejected promise makes the await throw; the finally
\* closes the browser and the error leaves crawlPages.
AbortBatch ==
  /\ pc = "await"
  /\ SomeRejected
  /\ pc' = "aborted"
  /\ browser' = "closed"
  /\ UNCHANGED <<topicName, urls, si, crawledUrls, pendingUrls, workers, successCount,
                 errorCount, totalNewLinksFound, batches, admitted, harvested, folded,
                 writes, openPages>>

(***************************************************************************)
(* crawlSinglePage: worker j of the current batch.  Its awaits are          *)
(* browser.newPage() (st = "newPage"), the page operations of lines         *)
(* 137-149 (st = "render") and page.close() (st = "close").  A call on a    *)
(* closed browser fails.                                                    *)
(***************************************************************************)
WorkerUnchanged ==
  UNCHANGED <<topicName, urls, si, pc, crawledUrls, browser, successCount, errorCount,
              totalNewLinksFound, batches, folded, writes>>

SetWorker(j, st, how, ret) ==
  workers' = [workers EXCEPT ![j] = [@ EXCEPT !.st = st, !.how = how, !.ret = ret]]

\* Line 133 succeeds.
NewPageOk(j) ==
  /\ workers[j].st = "newPage"
  /\ browser = "open"
  /\ SetWorker(j, "render", workers[j].how, NoResult)
  /\ openPages' = openPages \cup {workers[j].info.url}
  /\ UNCHANGED <<pendingUrls, admitted, harvested>>
  /\ WorkerUnchanged

\* Line 133 throws: it is outside the try, the promise is rejected.
NewPageFail(j) ==
  /\ workers[j].st = "newPage"
  /\ SetWorker(j, "rejected", workers[j].how, NoResult)
  /\ UNCHANGED <<pendingUrls, admitted, harvested, openPages>>
  /\ WorkerUnchanged

\* (variant: the failure is returned without the finally block)
RenderFailNoClose(j) ==
  /\ workers[j].st = "render"
  /\ SetWorker(j, "fulfilled", "renderFail", [success |-> FALSE, newLinksFound |-> 0, filename |-> <<>>])
  /\ UNCHANGED <<pendingUrls, admitted, harvested, openPages>>
  /\ WorkerUnchanged

\* Lines 137-153 throw (navigation error, timeout): the catch of lines
\* 203-205 returns a failure with newLinksFound 0, the finally awaits
\* page.close().
RenderFail(j) ==
  /\ workers[j].st = "render"
  /\ SetWorker(j, "close", "renderFail", [success |-> FALSE, newLinksFound |-> 0, filename |-> <<>>])
  /\ UNCHANGED <<pendingUrls, admitted, harvested, openPages>>
  /\ WorkerUnchanged

\* The a[href] elements of the rendered page (a URL outside the site
\* renders a page without links).
PageAnchors(u) == IF u \in DOMAIN Web THEN Web[u] ELSE <<>>

\* findRelatedLinks on every page of the site, for every namespace token
\* (evaluated once).
RelatedLinks ==
  [t \in TopicNames |-> [u \in DOMAIN Web |-> findRelatedLinks(Web[u], CurrentFramework(t))]]

\* Lines 152-153: the related links of the rendered page.
RelatedLinksOf(u) ==
  IF u \in DOMAIN Web THEN RelatedLinks[topicName][u]
  ELSE findRelatedLinks(PageAnchors(u), CurrentFramework(topicName))

\* What lines 171-201 make of the page: an article, no article, or an
\* exception in Readability / Turndown.
Extractions == {"article", "none", "throw"}

\* The value returned by lines 176-205.
PageResult(extraction, newLinksCount, pageInfo) ==
  CASE extraction = "article" -> [success |-> TRUE, newLinksFound |-> newLinksCount,
                                  filename |-> Filename(pageInfo)]
    [] extraction = "none"    -> [success |-> FALSE, newLinksFound |-> newLinksCount,
                                  filename |-> <<>>]
    [] extraction = "throw"   -> [success |-> FALSE, newLinksFound |-> 0, filename |-> <<>>]

\* Lines 149-207: page.content() is fulfilled; the links are found and the
\* new ones put on the pending queue, the content is extracted, and the
\* finally awaits page.close().
RenderOk(j, extraction) ==
  /\ workers[j].st = "render"
  /\ browser = "open"
  /\ LET relatedLinks == RelatedLinksOf(workers[j].info.url)
         res == AdmitLinks(relatedLinks, 1, crawledUrls, pendingUrls, 0)
     IN /\ pendingUrls' = res.pending
        /\ admitted' = admitted \cup Keys(res.pending)
        /\ SetWorker(j, "close", extraction, PageResult(extraction, res.count, workers[j].info))
  /\ harvested' = harvested \cup {workers[j].info.url}
  /\ UNCHANGED openPages
  /\ WorkerUnchanged

\* Line 207 succeeds: the promise is fulfilled with the value returned.
CloseOk(j) ==
  /\ workers[j].st = "close"
  /\ SetWorker(j, "fulfilled", workers[j].how, workers[j].ret)
  /\ openPages' = openPages \ {workers[j].info.url}
  /\ UNCHANGED <<pendingUrls, admitted, harvested>>
  /\ WorkerUnchanged

\* Line 207 throws inside the finally: the promise is rejected, and the
\* page has not been closed.
CloseFail(j) ==
  /\ workers[j].st = "close"
  /\ SetWorker(j, "rejected", workers[j].how, NoResult)
  /\ UNCHANGED <<pendingUrls, admitted, harvested, openPages>>
  /\ WorkerUnchanged

(***************************************************************************)
(* The file system: the promise of an fs.writeFile call settles.  Nothing  *)
(* in the program waits for it, reads its outcome or handles its           *)
(* rejection, so that Spec leaves the promises pending; FsSpec adds the    *)
(* steps of the file system.                                               *)
(***************************************************************************)
WriteUnchanged ==
  UNCHANGED <<topicName, urls, si, pc, crawledUrls, pendingUrls, workers, browser,
              successCount, errorCount, totalNewLinksFound, openPages,
              batches, admitted, harvested, folded>>

\* The write of line 270 completes: the file holds the page.
WriteOk(k) ==
  /\ writes[k].st = "pending"
  /\ writes' = [writes EXCEPT ![k].st = "done"]
  /\ WriteUnchanged

\* The write of line 270 fails: no file, and the rejection is not handled.
WriteFail(k) ==
  /\ writes[k].st = "pending"
  /\ writes' = [writes EXCEPT ![k].st = "failed"]
  /\ WriteUnchanged

Next ==
  \/ AdmitSeed
  \/ DrainBatch
  \/ FinishEmpty
  \/ FoldBatch
  \/ AbortBatch
  \/ \E j \in 1..Len(workers) : NewPageOk(j)
  \/ \E j \in 1..Len(workers) : NewPageFail(j)
  \/ \E j \in 1..Len(workers) : RenderFail(j)
  \/ \E j \in 1..Len(workers) : \E x \in Extractions : RenderOk(j, x)
  \/ \E j \in 1..Len(workers) : CloseOk(j)
  \/ \E j \in 1..Len(workers) : CloseFail(j)

Spec == Init /\ [][Next]_vars

\* Every await of the program settles: no enabled step is postponed for ever.
FairSpec == Spec /\ WF_vars(Next)

\* The program together with the file system.
FsNext ==
  \/ Next
  \/ \E k \in 1..Len(writes) : WriteOk(k)
  \/ \E k \in 1..Len(writes) : WriteFail(k)

FsSpec == Init /\ [][FsNext]_vars

(***************************************************************************)
(* Properties.                                                             *)
(***************************************************************************)
RECURSIVE Flatten(_)
Flatten(ss) == IF ss = <<>> THEN <<>> ELSE Head(ss) \o Flatten(Tail(ss))

\* Every record handed to crawlSinglePage so far, in dispatch order.
Drained == Flatten(batches)

\* The workers that are dispatched and not yet settled.
InFlight == {j \in 1..Len(workers) : workers[j].st \notin {"fulfilled", "rejected"}}

\* The URLs of the seed list.
SeedUrls == {urls[i].url : i \in 1..Len(urls)}

\* The in-scope links of a page, as findRelatedLinks finds them in this crawl.
LinksOf(u) ==
  LET ls == RelatedLinksOf(u)
  IN {ls[i].url : i \in 1..Len(ls)}

\* C1: a URL is dispatched to crawlSinglePage at most once, however often it
\* is admitted (duplicate seeds, links repeated or pointing back into a
\* cycle), and a URL in the visited set never returns to the pending queue.
C1_DispatchedAtMostOnce ==
  /\ [](\A p, q \in 1..Len(Drained) : p # q => Drained[p].url # Drained[q].url)
  /\ [][\A u \in crawledUrls : u \in crawledUrls' /\ ~MapHas(pendingUrls', u)]_vars

\* A crawl that ended after a duplicated seed was crawled and a page linking
\* back to it (b -> a) had its links harvested.
C1_Witness ==
  /\ pc = "done"
  /\ Len(urls) = 2 /\ urls[1].url = UrlA /\ urls[2].url = UrlA
  /\ UrlB \in harvested
  /\ UrlA \in crawledUrls

\* C2: in every state the visited set and the keys of the pending map are
\* disjoint, and every URL ever admitted is in exactly one of them.
C2_FrontierPartition ==
  /\ crawledUrls \cap Keys(pendingUrls) = {}
  /\ admitted = crawledUrls \cup Keys(pendingUrls)

\* Two workers of one batch between their suspension points, one of which
\* has already put links on the queue.
C2_Witness ==
  /\ Len(workers) = 2
  /\ workers[1].st = "close" /\ workers[1].info.url \in harvested
  /\ workers[2].st = "render"
  /\ Len(pendingUrls) > 0
  /\ Cardinality(admitted) > Len(urls)

\* C5: the number of workers in flight never exceeds the concurrency limit.
C5_BoundedInFlight == Cardinality(InFlight) <= concurrentLimit

\* A full batch is in flight while more URLs than that wait in the queue.
C5_Witness ==
  /\ Cardinality(InFlight) = concurrentLimit
  /\ Len(pendingUrls) > 0
  /\ Len(batches) >= 2

\* C6: a batch is drained only when every worker of the batch before it has
\* settled successfully and that batch has been folded, so that every link
\* those pages caused to be admitted is already in the frontier.
C6_BatchesSequential ==
  [][Len(batches') > Len(batches) =>
       /\ InFlight = {}
       /\ AllFulfilled
       /\ folded = Len(batches)
       /\ \A j \in 1..Len(workers) :
            workers[j].info.url \in harvested =>
              LinksOf(workers[j].info.url) \subseteq crawledUrls \cup Keys(pendingUrls)]_vars

\* A third batch is running: two joins have been followed by a drain.
C6_Witness ==
  /\ Len(batches) = 3
  /\ folded = 2
  /\ InFlight # {}

\* C3: with every await settling, the crawl reaches Done (nothing pending,
\* final report printed).
C3_ReachesDone == <>(pc = "done")

\* The URLs that can be reached from S by links, following only the links
\* of the pages in `expand`.
RECURSIVE ReachVia(_, _)
ReachVia(S, expand) ==
  LET N == S \cup UNION {LinksOf(u) : u \in S \cap expand}
  IN IF N = S THEN S ELSE ReachVia(N, expand)

C7_FailuresContained ==
  /\ pc # "aborted"
  /\ \A j \in 1..Len(workers) : workers[j].st # "rejected"

\* The scope test of the claim: the resolved URL contains the documentation
\* segment of the namespace token as typed, or lower-cased.
ClaimInScope(fullUrl, token) ==
  \/ Includes(fullUrl, DocMarker \o token \o <<"/">>)
  \/ Includes(fullUrl, DocMarker \o ToLowerCase(token) \o <<"/">>)

\* C8: once the links of a page are harvested, every link whose resolved URL
\* carries the segment of the token as typed or lower-cased has been
\* admitted, and no discovered URL without it has.
C8_ScopeAsGivenOrLower ==
  /\ \A u \in harvested : \A k \in 1..Len(PageAnchors(u)) :
       ClaimInScope(FullUrl(PageAnchors(u)[k].href), topicName)
         => FullUrl(PageAnchors(u)[k].href) \in admitted
  /\ \A u \in admitted \ SeedUrls : ClaimInScope(u, topicName)

\* C9: a step that admits (seeding or discovery; every step but a drain)
\* leaves the visited set and every record already in the pending map as
\* they are: the map only grows at its end.
C9_AdmitKeepsRecords ==
  [][batches' = batches =>
       /\ crawledUrls' = crawledUrls
       /\ Len(pendingUrls') >= Len(pendingUrls)
       /\ \A i \in 1..Len(pendingUrls) : pendingUrls'[i] = pendingUrls[i]]_vars

\* Every record admitted so far: those dispatched and those still pending.
Records == {Drained[i] : i \in 1..Len(Drained)} \cup {pendingUrls[i] : i \in 1..Len(pendingUrls)}

\* C10: no two admitted records with different URLs carry the same index.
C10_IndicesUnique == \A r1, r2 \in Records : r1.url # r2.url => r1.index # r2.index

\* The file names of the writes issued so far.
IssuedNames == {writes[k].filename : k \in 1..Len(writes)}

\* The pages for which a write has been issued.
WrittenUrls == {writes[k].url : k \in 1..Len(writes)}

\* C11: no two pages of a crawl are written to the same file name, so that
\* at Done there are as many file names as pages counted as persisted.
C11_OneFilePerPage ==
  /\ \A p, q \in 1..Len(writes) :
       writes[p].url # writes[q].url => writes[p].filename # writes[q].filename
  /\ pc = "done" => Cardinality(IssuedNames) = successCount

\* A step in which the results of a batch are folded.
FoldStep == folded' = folded + 1

\* The number of workers of the current batch that satisfy P.
NumWorkers(P(_)) == Cardinality({j \in 1..Len(workers) : P(workers[j])})

IsFailure(w) == ~w.ret.success

\* C12: a page whose render fails or times out yields a failure outcome
\* without rejecting; the step admits no link and leaves the orchestrator
\* and the other workers alone; when the batch is folded the page counts
\* once as failed, no file is written for it, it is not queued again, and
\* the loop goes on to the pause before the next batch or to the report.
C12_RenderFailure ==
  /\ [][\A j \in 1..Len(workers) :
          (batches' = batches /\ workers[j].st = "render" /\ workers'[j].how = "renderFail") =>
            /\ workers'[j].st = "close"
            /\ ~workers'[j].ret.success
            /\ workers'[j].ret.newLinksFound = 0
            /\ pendingUrls' = pendingUrls /\ admitted' = admitted /\ crawledUrls' = crawledUrls
            /\ pc' = pc
            /\ \A i \in 1..Len(workers) : i # j => workers'[i] = workers[i]]_vars
  /\ [][FoldStep =>
          /\ errorCount' = errorCount + NumWorkers(IsFailure)
          /\ pc' = IF Len(pendingUrls) > 0 THEN "pace" ELSE "done"
          /\ \A j \in 1..Len(workers) :
               workers[j].how = "renderFail" =>
                 /\ IsFailure(workers[j])
                 /\ \A k \in 1..Len(writes') : writes'[k].url # workers[j].info.url
                 /\ ~MapHas(pendingUrls', workers[j].info.url)
                 /\ workers[j].info.url \in crawledUrls']_vars

\* The second batch is running after a first batch in which a render failed
\* was folded.
C12_Witness ==
  /\ pc = "await"
  /\ Len(batches) = 2
  /\ errorCount >= 1
  /\ \E i \in 1..Len(batches[1]) : batches[1][i].url \notin harvested
  /\ InFlight # {}

\* The sum of newLinksFound over the workers of the current batch.
RECURSIVE NewLinksOfBatch(_)
NewLinksOfBatch(J) ==
  IF J = {} THEN 0
  ELSE LET j == CHOOSE x \in J : TRUE
       IN workers[j].ret.newLinksFound + NewLinksOfBatch(J \ {j})

\* C13: a page that renders but yields no article gives a failure outcome;
\* every in-scope link on it that was new is now pending and counted in its
\* newLinksFound; when the batch is folded no file is written for the page
\* and its newLinksFound is added to the discovered-links total.
C13_ExtractionFailure ==
  /\ [][\A j \in 1..Len(workers) :
          (batches' = batches /\ workers[j].st = "render" /\ workers'[j].how = "none") =>
            /\ ~workers'[j].ret.success
            /\ LinksOf(workers[j].info.url) \subseteq crawledUrls \cup Keys(pendingUrls')
            /\ workers'[j].ret.newLinksFound = Len(pendingUrls') - Len(pendingUrls)
            /\ workers'[j].ret.newLinksFound
                 = Cardinality(LinksOf(workers[j].info.url) \ (crawledUrls \cup Keys(pendingUrls)))]_vars
  /\ [][FoldStep =>
          /\ totalNewLinksFound' = totalNewLinksFound + NewLinksOfBatch(1..Len(workers))
          /\ \A j \in 1..Len(workers) :
               workers[j].how = "none" =>
                 \A k \in 1..Len(writes') : writes'[k].url # workers[j].info.url]_vars

\* A folded batch with a page that gave no article and two new links, both
\* pending and counted, and no file.
C13_Witness ==
  /\ pc = "pace"
  /\ Len(workers) = 1
  /\ workers[1].how = "none"
  /\ workers[1].ret.newLinksFound = 2
  /\ Len(pendingUrls) = 2
  /\ totalNewLinksFound = 2
  /\ writes = <<>>

\* C14: at Done the discovered-links total is the number of URLs that link
\* discovery admitted.
C14_TotalIsAdmittedByDiscovery ==
  pc = "done" => totalNewLinksFound = Cardinality(admitted \ SeedUrls)

\* C15: when the report is out and the browser released, the write of every
\* page counted as persisted has completed successfully.
C15_WritesCompleteAtReport ==
  pc = "done" =>
    /\ \A k \in 1..Len(writes) : writes[k].st = "done"
    /\ Len(writes) = successCount

\* A step taken while the orchestrator is suspended at line 261, which is
\* therefore a step of a worker.
WorkerStep == pc = "await" /\ pc' = "await"

Suffix(pending, i) == SubSeq(pending, i, Len(pending))

C17_BrowserClosedAfterWorkers ==
  browser = "closed" =>
    /\ pc \in {"done", "aborted"}
    /\ openPages = {}
    /\ InFlight = {}

\* C18: the page session a worker opens is released on every path by which
\* the worker returns (article written, no article, exception in the
\* page work), so that a session is open only while its worker is between
\* newPage and page.close, and none is open once a batch has been folded.
C18_SessionsReleased ==
  /\ \A j \in 1..Len(workers) :
       /\ workers[j].st \in {"render", "close"} => workers[j].info.url \in openPages
       /\ workers[j].st = "fulfilled" => workers[j].info.url \notin openPages
  /\ pc \in {"pace", "done"} => openPages = {}

\* A folded batch of two workers, one whose render failed and one whose
\* conversion threw, with no session left open.
C18_Witness ==
  /\ pc = "pace"
  /\ Len(workers) = 2
  /\ workers[1].how = "renderFail"
  /\ workers[2].how = "throw"
  /\ openPages = {}

\* C19: every dispatched record is counted exactly once: after each fold
\* persisted + failed is the number of visited URLs, and at Done it is the
\* number of URLs ever admitted.
C19_CountersAccountForAll ==
  /\ pc \in {"pace", "done"} => successCount + errorCount = Cardinality(crawledUrls)
  /\ pc = "done" =>
       /\ Cardinality(crawledUrls) = Cardinality(admitted)
       /\ successCount + errorCount = Cardinality(admitted)

\* The report of a crawl with at least two persisted and two failed pages.
C19_Witness ==
  /\ pc = "done"
  /\ successCount >= 2
  /\ errorCount >= 2
  /\ successCount + errorCount = Cardinality(admitted)

\* The pending map after the seeding loop of lines 229-232.
RECURSIVE SeededPending(_, _)
SeededPending(i, pending) ==
  IF i > Len(urls) THEN pending
  ELSE SeededPending(i + 1, MapSet(pending, urls[i].url, urls[i]))

\* The pending map after the workers of a batch have harvested their links
\* one after the other in batch order, each page with the outcome it had in
\* this run (a page outside harvested failed before its links were read).
RECURSIVE InOrderHarvest(_, _, _, _)
InOrderHarvest(batch, j, crawled, pending) ==
  IF j > Len(batch) THEN pending
  ELSE InOrderHarvest(batch, j + 1, crawled,
                      IF batch[j].url \in harvested
                        THEN AdmitLinks(RelatedLinksOf(batch[j].url), 1, crawled, pending, 0).pending
                        ELSE pending)

\* The batches of the run with the same seeds, pages and outcomes in which
\* the workers of every batch complete in batch order.
RECURSIVE InOrderRun(_, _, _)
InOrderRun(crawled, pending, done) ==
  IF pending = <<>> THEN done
  ELSE LET batch == CurrentBatch(pending)
           c1 == AddBatch(crawled, batch)
           p1 == DeleteBatch(pending, batch)
       IN InOrderRun(c1, InOrderHarvest(batch, 1, c1, p1), Append(done, batch))

InOrderBatches == InOrderRun({}, SeededPending(1, <<>>), <<>>)

\* The file names that run writes: one per page written in this run.
InOrderNames ==
  LET recs == Flatten(InOrderBatches)
  IN {Filename(recs[i]) : i \in {k \in 1..Len(recs) : recs[k].url \in WrittenUrls}}

\* C20: the result does not depend on the order in which the workers of a
\* batch complete: at Done the batches (records with their indices, in
\* order) and the set of file names are those of the run with the same
\* seeds, pages and per-page outcomes whose workers complete in batch order.
C20_SameAsInOrderRun ==
  pc = "done" =>
    /\ batches = InOrderBatches
    /\ IssuedNames = InOrderNames

====
